---- MODULE Spec2Model ----
(***************************************************************************)
(* Cart and checkout engine of VelvetPOS (src/client/js/pos.js, class      *)
(* POSManager) together with the button helpers of src/client/js/auth.js.  *)
(*                                                                         *)
(* Money: prices, the discount input and the cash input are whole cents.   *)
(* Sums that involve the tax rate (tax, total, change) are carried in      *)
(* hundredths of a cent, so that 8 % of a whole number of cents is exact.  *)
(* The binary rounding of IEEE doubles is not modelled.                    *)
(***************************************************************************)
EXTENDS Integers, Sequences, FiniteSets, TLC

VARIABLES
    cart,               \* this.cart: sequence of lines {id,name,price,quantity,maxStock}
    products,           \* this.products: the catalog snapshot bound to the product cards
    discountInput,      \* value of #discountInput, cents
    cashReceived,       \* value of #cashReceived, cents
    payment,            \* checked input[name="payment"]
    customerSelect,     \* value of #customerSelect
    checkoutBtnDisabled,\* #checkoutBtn.disabled
    display,            \* text of #cartSubtotal, #cartTax, #cartTotal, #changeDue (cents)
    toasts,             \* warning, error and change-due toasts of the most recent step
    pc,                 \* position of each checkout() invocation
    transactionData,    \* the transactionData object of each checkout() invocation
    response,           \* the response a checkout() holds while it reloads the catalog
    sent,               \* the request bodies each checkout() has handed to fetch and awaits
    atInvoke,           \* history: cart and discount when each checkout() was invoked
    lastCall,           \* history: the cart method run by the most recent step, with its arguments
    authCurrentUser,    \* auth.currentUser of the Firebase SDK
    currentUser,        \* AuthManager.currentUser
    storedUser,         \* localStorage item 'velvetpos_user'
    fetchConfig,        \* position and user of each fetchStoreConfig() invocation
    logoutPc,           \* position of logout()
    navigating,         \* window.location.href was assigned, the page is not yet replaced
    loggedOut           \* history: logout() has completed and nobody has signed in since

domVars  == <<discountInput, cashReceived, payment, customerSelect>>
procVars == <<pc, transactionData, response, sent, atInvoke>>
posVars == <<cart, products, discountInput, cashReceived, payment, customerSelect,
             checkoutBtnDisabled, display, toasts, pc, transactionData, response, sent,
             atInvoke, lastCall>>
authVars == <<authCurrentUser, currentUser, storedUser, fetchConfig, logoutPc,
              navigating, loggedOut>>
vars == <<posVars, authVars>>

(***************************************************************************)
(* Bounds and input sets                                                   *)
(***************************************************************************)
MaxStock == 2

\* largest stock of a snapshot handed to addToCart directly
MaxCallStock == 3

TaxRatePct == 8

ProductIds == {"A", "B"}

Stocks == 0..MaxStock

Deltas == {-2, -1, 1, 2}

DiscountValues == {0, 2500}

CashValues == {0, 2500}

PaymentMethods == {"cash", "card"}

CustomerIds == {"", "cust1"}

ChangeDueReplies == {0, 340}

Procs == {1, 2}

\* accounts that sign in, and the fetchStoreConfig() invocations of one page
Users == {"u1", "u2"}

NoUser == "null"

Slots == {1, 2}

Price(id) == IF id = "A" THEN 1000 ELSE 250

Name(id) == IF id = "A" THEN "Lipstick" ELSE "Mascara"

Product(id, stock) == [id |-> id, name |-> Name(id), price |-> Price(id), stock |-> stock]

Snapshots == {Product(id, s) : id \in ProductIds, s \in 0..MaxCallStock}

\* the catalogs the inventory endpoint answers with at the register: one
\* product in stock, one sold out
Catalogs == {[id \in ProductIds |-> Product(id, IF id = "A" THEN MaxStock ELSE 0)]}

\* every catalog the inventory endpoint can answer with
AllCatalogs == {[id \in ProductIds |-> Product(id, f[id])] : f \in [ProductIds -> Stocks]}

Max(a, b) == IF a >= b THEN a ELSE b

(***************************************************************************)
(* Pure helpers of the cart                                                *)
(***************************************************************************)
\* Array.prototype.find by id: index of the first line with that id, 0 if none
Find(c, id) ==
    IF \E i \in 1..Len(c) : c[i].id = id
    THEN CHOOSE i \in 1..Len(c) : c[i].id = id /\ \A j \in 1..(i-1) : c[j].id # id
    ELSE 0

\* Array.prototype.filter(item => item.id !== productId)
RECURSIVE FilterOut(_, _)
FilterOut(c, id) ==
    IF c = <<>> THEN <<>>
    ELSE IF Head(c).id = id THEN FilterOut(Tail(c), id)
         ELSE <<Head(c)>> \o FilterOut(Tail(c), id)

NewLine(product) ==
    [id |-> product.id, name |-> product.name, price |-> product.price,
     quantity |-> 1, maxStock |-> product.stock]

\* addToCart that lets the quantity reach one past the stock
AddedCartOffByOne(c, product) ==
    LET i == Find(c, product.id) IN
    IF i # 0
    THEN IF c[i].quantity <= product.stock
         THEN [c EXCEPT ![i].quantity = @ + 1]
         ELSE c
    ELSE Append(c, NewLine(product))

\* addToCart without the lookup of an existing line
AddedCartAlwaysPush(c, product) == Append(c, NewLine(product))

\* the cart after addToCart(product)
AddedCart(c, product) ==
    LET i == Find(c, product.id) IN
    IF i # 0
    THEN IF c[i].quantity < product.stock
         THEN [c EXCEPT ![i].quantity = @ + 1]
         ELSE c
    ELSE Append(c, NewLine(product))

\* removeFromCart written with splice(findIndex(...), 1): an absent id drops
\* the last line
RemovedCartSplice(c, productId) ==
    LET i == Find(c, productId) IN
    IF i = 0 THEN SubSeq(c, 1, Len(c) - 1)
    ELSE SubSeq(c, 1, i - 1) \o SubSeq(c, i + 1, Len(c))

\* the cart after removeFromCart(productId)
RemovedCart(c, productId) == FilterOut(c, productId)

\* updateCartItemQuantity without the removal of an exhausted line
UpdatedCartNoRemoval(c, productId, change) ==
    LET i == Find(c, productId) IN
    IF i = 0 THEN c
    ELSE IF c[i].quantity + change <= c[i].maxStock
         THEN [c EXCEPT ![i].quantity = c[i].quantity + change]
         ELSE c

\* updateCartItemQuantity that skips the stock test
UpdatedCartNoStockTest(c, productId, change) ==
    LET i == Find(c, productId) IN
    IF i = 0 THEN c
    ELSE IF c[i].quantity + change <= 0 THEN FilterOut(c, productId)
         ELSE [c EXCEPT ![i].quantity = c[i].quantity + change]

\* the cart after updateCartItemQuantity(productId, change)
UpdatedCart(c, productId, change) ==
    LET i == Find(c, productId) IN
    IF i = 0 THEN c
    ELSE LET newQuantity == c[i].quantity + change IN
         IF newQuantity <= 0 THEN RemovedCart(c, productId)
         ELSE IF newQuantity <= c[i].maxStock
              THEN [c EXCEPT ![i].quantity = newQuantity]
              ELSE c

(***************************************************************************)
(* Totals                                                                  *)
(***************************************************************************)
\* a subtotal that reads the stock snapshot of the line, not its quantity
RECURSIVE SubtotalOfStock(_)
SubtotalOfStock(c) ==
    IF c = <<>> THEN 0 ELSE Head(c).price * Head(c).maxStock + SubtotalOfStock(Tail(c))

\* this.cart.reduce((sum, item) => sum + item.price * item.quantity, 0), cents
RECURSIVE Subtotal(_)
Subtotal(c) ==
    IF c = <<>> THEN 0 ELSE Head(c).price * Head(c).quantity + Subtotal(Tail(c))

\* subtotal - discount, cents
TaxableAmount(c, discount) == Subtotal(c) - discount

\* tax taken on the subtotal, before the discount
TaxOnSubtotal(c, discount) == Subtotal(c) * TaxRatePct

\* taxableAmount * this.taxRate, hundredths of a cent
Tax(c, discount) == TaxableAmount(c, discount) * TaxRatePct

\* calculateTotal(): taxableAmount + tax, hundredths of a cent
CalculateTotal(c, discount) == TaxableAmount(c, discount) * 100 + Tax(c, discount)

\* Math.max(0, cashReceived - total), hundredths of a cent
ChangeDue(cash, total) == Max(0, cash * 100 - total)

\* Number.prototype.toFixed(2) of an amount in hundredths of a cent: cents,
\* rounded to the nearest, a tie away from zero
ToFixed2(x) == IF x >= 0 THEN (x + 50) \div 100 ELSE -((-x + 50) \div 100)

\* what updateTotals() followed by updateChangeDue() writes to the page
Display(c, discount, cash) ==
    [subtotal |-> ToFixed2(Subtotal(c) * 100),
     tax      |-> ToFixed2(Tax(c, discount)),
     total    |-> ToFixed2(CalculateTotal(c, discount)),
     change   |-> ToFixed2(ChangeDue(cash, CalculateTotal(c, discount)))]

(***************************************************************************)
(* Toasts and page refresh                                                 *)
(***************************************************************************)
Call(op, id, arg, before) == [op |-> op, id |-> id, arg |-> arg, before |-> before]

NoCall == Call("none", "", 0, <<>>)

Toast(text) == [text |-> text, amount |-> 0]

ChangeToast(amount) == [text |-> "Change due", amount |-> amount]

\* updateCartDisplay(): the checkout button follows the emptiness of the
\* cart, then updateTotals() and updateChangeDue() rewrite the totals
ButtonAfterDisplay(c) == Len(c) = 0

\* updateCartDisplay that leaves the totals as they are
UpdateCartDisplayButtonOnly(c) ==
    /\ checkoutBtnDisabled' = ButtonAfterDisplay(c)
    /\ UNCHANGED display

UpdateCartDisplay(c) ==
    /\ checkoutBtnDisabled' = ButtonAfterDisplay(c)
    /\ display' = Display(c, discountInput, cashReceived)

(***************************************************************************)
(* Cart operations                                                         *)
(***************************************************************************)
\* addToCart that takes the unit out of the product record
AddToCartTakesStock(product) ==
    LET i == Find(cart, product.id) IN
    /\ cart' = AddedCart(cart, product)
    /\ IF i # 0 /\ ~(cart[i].quantity < product.stock)
       THEN /\ toasts' = <<Toast("Not enough stock available")>>
            /\ UNCHANGED <<checkoutBtnDisabled, display, products>>
       ELSE /\ toasts' = <<>>
            /\ UpdateCartDisplay(cart')
            /\ products' = [products EXCEPT ![product.id].stock = Max(0, @ - 1)]
    /\ UNCHANGED <<domVars, procVars>>
    /\ lastCall' = Call("addToCart", product.id, product.stock, cart)
    /\ UNCHANGED authVars

AddToCart(product) ==
    LET i == Find(cart, product.id) IN
    /\ cart' = AddedCart(cart, product)
    /\ IF i # 0 /\ ~(cart[i].quantity < product.stock)
       THEN /\ toasts' = <<Toast("Not enough stock available")>>
            /\ UNCHANGED <<checkoutBtnDisabled, display>>
       ELSE /\ toasts' = <<>>
            /\ UpdateCartDisplay(cart')
    /\ UNCHANGED <<products, domVars, procVars>>
    /\ lastCall' = Call("addToCart", product.id, product.stock, cart)
    /\ UNCHANGED authVars

RemoveFromCart(productId) ==
    /\ cart' = RemovedCart(cart, productId)
    /\ UpdateCartDisplay(cart')
    /\ toasts' = <<>>
    /\ UNCHANGED <<products, domVars, procVars>>
    /\ lastCall' = Call("removeFromCart", productId, 0, cart)
    /\ UNCHANGED authVars

\* updateCartItemQuantity that warns about a product without a line
UpdateCartItemQuantityWarns(productId, change) ==
    LET i == Find(cart, productId) IN
    /\ cart' = UpdatedCart(cart, productId, change)
    /\ IF i # 0 /\ (cart[i].quantity + change <= 0 \/ cart[i].quantity + change <= cart[i].maxStock)
       THEN UpdateCartDisplay(cart') /\ toasts' = <<>>
       ELSE /\ toasts' = <<Toast("Not enough stock available")>>
            /\ UNCHANGED <<checkoutBtnDisabled, display>>
    /\ lastCall' = Call("updateCartItemQuantity", productId, change, cart)
    /\ UNCHANGED authVars
    /\ UNCHANGED <<products, domVars, procVars>>

UpdateCartItemQuantity(productId, change) ==
    LET i == Find(cart, productId) IN
    /\ cart' = UpdatedCart(cart, productId, change)
    /\ IF i = 0
       THEN toasts' = <<>> /\ UNCHANGED <<checkoutBtnDisabled, display>>
       ELSE IF cart[i].quantity + change <= 0 \/ cart[i].quantity + change <= cart[i].maxStock
       THEN UpdateCartDisplay(cart') /\ toasts' = <<>>
       ELSE /\ toasts' = <<Toast("Not enough stock available")>>
            /\ UNCHANGED <<checkoutBtnDisabled, display>>
    /\ lastCall' = Call("updateCartItemQuantity", productId, change, cart)
    /\ UNCHANGED authVars
    /\ UNCHANGED <<products, domVars, procVars>>

ClearCart ==
    /\ cart' = <<>>
    /\ UpdateCartDisplay(cart')
    /\ toasts' = <<>>
    /\ UNCHANGED <<products, domVars, procVars>>
    /\ lastCall' = Call("clearCart", "", 0, cart)
    /\ UNCHANGED authVars

(***************************************************************************)
(* Form inputs                                                             *)
(***************************************************************************)
\* 'input' on #discountInput runs updateTotals()
DiscountInput(d) ==
    /\ discountInput' = d
    /\ display' = Display(cart, d, cashReceived)
    /\ toasts' = <<>>
    /\ UNCHANGED <<cart, products, cashReceived, payment, customerSelect,
                   checkoutBtnDisabled, procVars>>
    /\ lastCall' = NoCall
    /\ UNCHANGED authVars

\* 'input' on #cashReceived runs updateChangeDue()
CashInput(v) ==
    /\ cashReceived' = v
    /\ display' = [display EXCEPT
                      !.change = ToFixed2(ChangeDue(v, CalculateTotal(cart, discountInput)))]
    /\ toasts' = <<>>
    /\ UNCHANGED <<cart, products, discountInput, payment, customerSelect,
                   checkoutBtnDisabled, procVars>>
    /\ lastCall' = NoCall
    /\ UNCHANGED authVars

PaymentChange(m) ==
    /\ payment' = m
    /\ toasts' = <<>>
    /\ UNCHANGED <<cart, products, discountInput, cashReceived, customerSelect,
                   checkoutBtnDisabled, display, procVars>>
    /\ lastCall' = NoCall
    /\ UNCHANGED authVars

CustomerChange(cid) ==
    /\ customerSelect' = cid
    /\ toasts' = <<>>
    /\ UNCHANGED <<cart, products, discountInput, cashReceived, payment,
                   checkoutBtnDisabled, display, procVars>>
    /\ lastCall' = NoCall
    /\ UNCHANGED authVars

(***************************************************************************)
(* checkout()                                                              *)
(***************************************************************************)
NoTransaction ==
    [items |-> <<>>, customer_id |-> "", payment_method |-> "none",
     cash_amount |-> 0, card_amount |-> 0, discount |-> 0]

NoInvoke == [cart |-> <<>>, discount |-> 0]

NoResponse == [success |-> FALSE, change_due |-> 0]

\* an emptiness test that never fires
CartIsEmptyNever(c) == Len(c) < 0

CartIsEmpty(c) == Len(c) = 0

\* cash_amount, cents
CashAmount(pay, cash) == IF pay = "cash" THEN cash ELSE 0

\* a card amount that is filled in for every payment method
CardAmountAlways(pay, c, discount) == CalculateTotal(c, discount)

\* card_amount, hundredths of a cent
CardAmount(pay, c, discount) == IF pay = "card" THEN CalculateTotal(c, discount) ELSE 0

\* the cash comparison turned around
InsufficientCashReversed(pay, cash, c, discount) ==
    pay = "cash" /\ CashAmount(pay, cash) * 100 > CalculateTotal(c, discount)

InsufficientCash(pay, cash, c, discount) ==
    pay = "cash" /\ CashAmount(pay, cash) * 100 < CalculateTotal(c, discount)

TransactionItems(c) ==
    [i \in 1..Len(c) |-> [id |-> c[i].id, name |-> c[i].name,
                          price |-> c[i].price, quantity |-> c[i].quantity]]

BuildTransaction(c, cust, pay, cash, discount) ==
    [items |-> TransactionItems(c), customer_id |-> cust, payment_method |-> pay,
     cash_amount |-> CashAmount(pay, cash), card_amount |-> CardAmount(pay, c, discount),
     discount |-> discount]

InFlight(p) == pc[p] \in {"awaitToken", "awaitFetch"}

\* the synchronous part of checkout(), up to the first await of apiRequest()
Checkout(p) ==
    /\ pc[p] = "idle"
    /\ \A q \in Procs : q < p => pc[q] # "idle"
    /\ IF CartIsEmpty(cart)
       THEN /\ toasts' = <<Toast("Cart is empty")>>
            /\ UNCHANGED <<cart, products, domVars, checkoutBtnDisabled, display, procVars>>
       ELSE IF InsufficientCash(payment, cashReceived, cart, discountInput)
       THEN /\ toasts' = <<Toast("Insufficient cash amount")>>
            /\ UNCHANGED <<cart, products, domVars, checkoutBtnDisabled, display, procVars>>
       ELSE /\ transactionData' = [transactionData EXCEPT ![p] =
                  BuildTransaction(cart, customerSelect, payment, cashReceived, discountInput)]
            /\ atInvoke' = [atInvoke EXCEPT ![p] = [cart |-> cart, discount |-> discountInput]]
            /\ checkoutBtnDisabled' = TRUE
            /\ pc' = [pc EXCEPT ![p] = "awaitToken"]
            /\ toasts' = <<>>
            /\ UNCHANGED <<cart, products, domVars, display, response, sent>>
    /\ lastCall' = NoCall
    /\ UNCHANGED authVars

\* a body that shares the line objects of the cart: it is serialised with
\* the quantities the lines have at that moment
BodyAliased(t, c) ==
    [t EXCEPT !.items = [i \in 1..Len(t.items) |->
        LET j == Find(c, t.items[i].id) IN
        IF j = 0 THEN t.items[i] ELSE [t.items[i] EXCEPT !.quantity = c[j].quantity]]]

\* JSON.stringify(data) after the token was awaited: the items are objects
\* of their own, so the body is the request as it was built
Body(t, c) == t

\* apiRequest(): getIdToken() resolved (or failed, which is only logged);
\* the body is serialised and handed to fetch()
TokenResolved(p) ==
    /\ pc[p] = "awaitToken"
    /\ pc' = [pc EXCEPT ![p] = "awaitFetch"]
    /\ sent' = [sent EXCEPT ![p] = Append(@, Body(transactionData[p], cart))]
    /\ toasts' = <<>>
    /\ UNCHANGED <<cart, products, domVars, checkoutBtnDisabled, display,
                   transactionData, response, atInvoke>>
    /\ lastCall' = NoCall
    /\ UNCHANGED authVars

SuccessToasts(changeDue) ==
    IF changeDue > 0 THEN <<ChangeToast(changeDue)>> ELSE <<>>

\* a success path that forgets clearCart()
CartAfterSuccessKept(c) == c

CartAfterSuccess(c) == <<>>

\* response.success: toasts, clearCart(), then loadProducts() is awaited
SubmitSucceeded(p, changeDue) ==
    /\ pc[p] = "awaitFetch"
    /\ response' = [response EXCEPT ![p] = [success |-> TRUE, change_due |-> changeDue]]
    /\ toasts' = SuccessToasts(response'[p].change_due)
    /\ cart' = CartAfterSuccess(cart)
    /\ UpdateCartDisplay(cart')
    /\ pc' = [pc EXCEPT ![p] = "awaitReload"]
    /\ transactionData' = [transactionData EXCEPT ![p] = NoTransaction]
    /\ sent' = [sent EXCEPT ![p] = <<>>]
    /\ atInvoke' = [atInvoke EXCEPT ![p] = NoInvoke]
    /\ UNCHANGED <<products, domVars>>
    /\ lastCall' = Call("clearCart", "", 0, cart)
    /\ UNCHANGED authVars

CartAfterFailure(c) == c

\* a failure path that sends the request a second time
SubmitFailedRetries(p) ==
    /\ pc[p] = "awaitFetch"
    /\ Len(sent[p]) < 2
    /\ sent' = [sent EXCEPT ![p] = Append(@, Body(transactionData[p], cart))]
    /\ toasts' = <<>>
    /\ UNCHANGED <<cart, products, domVars, checkoutBtnDisabled, display,
                   pc, transactionData, response, atInvoke>>
    /\ lastCall' = NoCall
    /\ UNCHANGED authVars

\* a failure path without the finally block: hideLoading is not run
SubmitFailedKeepsLoading(p) ==
    /\ pc[p] = "awaitFetch"
    /\ toasts' = <<Toast("Transaction failed")>>
    /\ cart' = CartAfterFailure(cart)
    /\ pc' = [pc EXCEPT ![p] = "idle"]
    /\ transactionData' = [transactionData EXCEPT ![p] = NoTransaction]
    /\ sent' = [sent EXCEPT ![p] = <<>>]
    /\ atInvoke' = [atInvoke EXCEPT ![p] = NoInvoke]
    /\ UNCHANGED <<products, domVars, display, response, checkoutBtnDisabled>>
    /\ lastCall' = NoCall
    /\ UNCHANGED authVars

\* fetch rejected, response not ok, or response.success false: the catch
\* block shows the error, the finally block runs hideLoading('checkoutBtn')
SubmitFailed(p) ==
    /\ pc[p] = "awaitFetch"
    /\ toasts' = <<Toast("Transaction failed")>>
    /\ cart' = CartAfterFailure(cart)
    /\ checkoutBtnDisabled' = FALSE
    /\ pc' = [pc EXCEPT ![p] = "idle"]
    /\ transactionData' = [transactionData EXCEPT ![p] = NoTransaction]
    /\ sent' = [sent EXCEPT ![p] = <<>>]
    /\ atInvoke' = [atInvoke EXCEPT ![p] = NoInvoke]
    /\ UNCHANGED <<products, domVars, display, response>>
    /\ lastCall' = NoCall
    /\ UNCHANGED authVars

\* loadProducts() finished (from the endpoint, or from the demo inventory
\* when the request failed); checkout() leaves through its finally block
ReloadDone(p, catalog) ==
    /\ pc[p] = "awaitReload"
    /\ products' = catalog
    /\ checkoutBtnDisabled' = FALSE
    /\ pc' = [pc EXCEPT ![p] = "idle"]
    /\ response' = [response EXCEPT ![p] = NoResponse]
    /\ UNCHANGED <<transactionData, sent, atInvoke>>
    /\ toasts' = <<>>
    /\ UNCHANGED <<cart, domVars, display>>
    /\ lastCall' = NoCall
    /\ UNCHANGED authVars

\* saveProduct() / deleteProduct(): the catalog is reloaded after the change
SaveProduct(catalog) ==
    /\ products' = catalog
    /\ toasts' = <<>>
    /\ UNCHANGED <<cart, domVars, checkoutBtnDisabled, display, procVars>>
    /\ lastCall' = NoCall
    /\ UNCHANGED authVars

(***************************************************************************)
(* User events at the register                                             *)
(***************************************************************************)
\* a product card has a click listener only when product.stock > 0
ClickProductCard(id) ==
    /\ products[id].stock > 0
    /\ AddToCart(products[id])

CartIds == {cart[i].id : i \in 1..Len(cart)}

\* the - and + buttons of a cart line
QuantityButton(id, change) ==
    /\ id \in CartIds
    /\ UpdateCartItemQuantity(id, change)

RemoveButton(id) ==
    /\ id \in CartIds
    /\ RemoveFromCart(id)

\* a disabled button fires no click
CheckoutClick(p) ==
    /\ ~checkoutBtnDisabled
    /\ Checkout(p)

(***************************************************************************)
(* AuthManager                                                             *)
(***************************************************************************)
NoFetch == [pc |-> "idle", user |-> NoUser]

\* getCurrentUser(): auth?.currentUser || JSON.parse(localStorage item)
GetCurrentUser == IF authCurrentUser # NoUser THEN authCurrentUser ELSE storedUser

\* sign-in reported by onAuthStateChanged(user): handleAuthStateChange sets
\* currentUser and starts fetchStoreConfig(user), which awaits the token
SignIn(u) ==
    /\ ~navigating
    /\ logoutPc = "idle"
    /\ authCurrentUser # u
    /\ \E s \in Slots :
          /\ fetchConfig[s].pc = "idle"
          /\ \A r \in Slots : r < s => fetchConfig[r].pc # "idle"
          /\ fetchConfig' = [fetchConfig EXCEPT ![s] = [pc |-> "awaitToken", user |-> u]]
    /\ authCurrentUser' = u
    /\ currentUser' = u
    /\ loggedOut' = FALSE
    /\ UNCHANGED <<storedUser, logoutPc, navigating, posVars>>

\* fetchStoreConfig(): user.getIdToken() resolved, /api/auth/verify is fetched
FetchTokenResolved(s) ==
    /\ fetchConfig[s].pc = "awaitToken"
    /\ fetchConfig' = [fetchConfig EXCEPT ![s].pc = "awaitVerify"]
    /\ UNCHANGED <<authCurrentUser, currentUser, storedUser, logoutPc, navigating,
                   loggedOut, posVars>>

\* response.ok: localStorage.setItem('velvetpos_user', {uid: user.uid, ...})
StoredAfterVerify(s) == fetchConfig[s].user

VerifyOk(s) ==
    /\ fetchConfig[s].pc = "awaitVerify"
    /\ storedUser' = StoredAfterVerify(s)
    /\ fetchConfig' = [fetchConfig EXCEPT ![s] = NoFetch]
    /\ UNCHANGED <<authCurrentUser, currentUser, logoutPc, navigating, loggedOut, posVars>>

\* getIdToken() or fetch rejected, or the response is not ok: only logged
FetchFailed(s) ==
    /\ fetchConfig[s].pc # "idle"
    /\ fetchConfig' = [fetchConfig EXCEPT ![s] = NoFetch]
    /\ UNCHANGED <<authCurrentUser, currentUser, storedUser, logoutPc, navigating,
                   loggedOut, posVars>>

\* logout() up to await auth.signOut()
Logout ==
    /\ logoutPc = "idle"
    /\ ~navigating
    /\ authCurrentUser # NoUser
    /\ logoutPc' = "awaitSignOut"
    /\ UNCHANGED <<authCurrentUser, currentUser, storedUser, fetchConfig, navigating,
                   loggedOut, posVars>>

\* signOut() resolved: onAuthStateChanged(null) runs handleAuthStateChange,
\* which clears currentUser and redirects to /login
SignOutResolved ==
    /\ logoutPc = "awaitSignOut"
    /\ authCurrentUser' = NoUser
    /\ currentUser' = NoUser
    /\ navigating' = TRUE
    /\ logoutPc' = "signedOut"
    /\ UNCHANGED <<storedUser, fetchConfig, loggedOut, posVars>>

\* logout() after the await: the stored records are removed, redirect
LogoutDone ==
    /\ logoutPc = "signedOut"
    /\ storedUser' = NoUser
    /\ navigating' = TRUE
    /\ logoutPc' = "idle"
    /\ loggedOut' = TRUE
    /\ UNCHANGED <<authCurrentUser, currentUser, fetchConfig, posVars>>

\* signOut() rejected: the catch block shows 'Logout failed'
SignOutFailed ==
    /\ logoutPc = "awaitSignOut"
    /\ logoutPc' = "idle"
    /\ toasts' = <<Toast("Logout failed. Please try again.")>>
    /\ UNCHANGED <<authCurrentUser, currentUser, storedUser, fetchConfig, navigating,
                   loggedOut>>
    /\ UNCHANGED <<cart, products, domVars, checkoutBtnDisabled, display, procVars, lastCall>>

\* the /login page has replaced the page: pending continuations of the old
\* page are gone, a new AuthManager is constructed, localStorage persists
PageLoaded ==
    /\ navigating
    /\ logoutPc = "idle"
    /\ navigating' = FALSE
    /\ fetchConfig' = [s \in Slots |-> NoFetch]
    /\ currentUser' = NoUser
    /\ UNCHANGED <<authCurrentUser, storedUser, logoutPc, loggedOut, posVars>>

InitAuth ==
    /\ authCurrentUser = NoUser
    /\ currentUser = NoUser
    /\ storedUser = NoUser
    /\ fetchConfig = [s \in Slots |-> NoFetch]
    /\ logoutPc = "idle"
    /\ navigating = FALSE
    /\ loggedOut = FALSE

(***************************************************************************)
(* Specifications                                                          *)
(***************************************************************************)
InitPage ==
    /\ cart = <<>>
    /\ discountInput = 0
    /\ cashReceived = 0
    /\ payment = "cash"
    /\ customerSelect = ""
    /\ checkoutBtnDisabled = TRUE
    /\ display = Display(<<>>, 0, 0)
    /\ toasts = <<>>
    /\ pc = [p \in Procs |-> "idle"]
    /\ transactionData = [p \in Procs |-> NoTransaction]
    /\ sent = [p \in Procs |-> <<>>]
    /\ response = [p \in Procs |-> NoResponse]
    /\ atInvoke = [p \in Procs |-> NoInvoke]
    /\ lastCall = NoCall
    /\ InitAuth

Init == products \in Catalogs /\ InitPage

InitRegister == products \in AllCatalogs /\ InitPage

\* the register as driven through the page
Next ==
    \/ \E id \in ProductIds : ClickProductCard(id)
    \/ \E id \in ProductIds, change \in {-1, 1} : QuantityButton(id, change)
    \/ \E id \in ProductIds : RemoveButton(id)
    \/ ClearCart
    \/ \E d \in DiscountValues : DiscountInput(d)
    \/ \E v \in CashValues : CashInput(v)
    \/ \E m \in PaymentMethods : PaymentChange(m)
    \/ \E p \in Procs : CheckoutClick(p)
    \/ \E p \in Procs : TokenResolved(p)
    \/ \E p \in Procs, ch \in ChangeDueReplies : SubmitSucceeded(p, ch)
    \/ \E p \in Procs : SubmitFailed(p)
    \/ \E p \in Procs, catalog \in Catalogs : ReloadDone(p, catalog)
    \/ \E catalog \in Catalogs : SaveProduct(catalog)

Spec == Init /\ [][Next]_vars

\* the cart methods called with arbitrary arguments
NextCart ==
    \/ \E product \in Snapshots : AddToCart(product)
    \/ \E id \in ProductIds, change \in Deltas : UpdateCartItemQuantity(id, change)
    \/ \E id \in ProductIds : RemoveFromCart(id)
    \/ ClearCart
    \/ \E d \in DiscountValues : DiscountInput(d)
    \/ \E cid \in CustomerIds : CustomerChange(cid)

SpecCart == Init /\ [][NextCart]_vars

\* the cart as driven through the page while the catalog is edited and
\* reloaded, without checkout
NextRegister ==
    \/ \E id \in ProductIds : ClickProductCard(id)
    \/ \E id \in ProductIds, change \in {-1, 1} : QuantityButton(id, change)
    \/ \E id \in ProductIds : RemoveButton(id)
    \/ ClearCart
    \/ \E d \in DiscountValues : DiscountInput(d)
    \/ \E v \in CashValues : CashInput(v)
    \/ \E catalog \in AllCatalogs : SaveProduct(catalog)

SpecRegister == InitRegister /\ [][NextRegister]_vars

\* a sale of up to two products, one checkout at a time
SaleCatalog == [id \in ProductIds |-> Product(id, 1)]

InitSale == products = SaleCatalog /\ InitPage

NextSale ==
    \/ \E id \in ProductIds : ClickProductCard(id)
    \/ \E id \in ProductIds : RemoveButton(id)
    \/ \E d \in DiscountValues : DiscountInput(d)
    \/ \E v \in CashValues : CashInput(v)
    \/ \E m \in PaymentMethods : PaymentChange(m)
    \/ \E cid \in CustomerIds : CustomerChange(cid)
    \/ CheckoutClick(1)
    \/ TokenResolved(1)
    \/ \E ch \in ChangeDueReplies : SubmitSucceeded(1, ch)
    \/ SubmitFailed(1)
    \/ ReloadDone(1, SaleCatalog)

SpecSale == InitSale /\ [][NextSale]_vars

\* every pending promise of a checkout settles: the token, the transaction
\* request (answered or rejected), the reload of the products
Fairness ==
    \A p \in Procs :
        /\ WF_vars(TokenResolved(p))
        /\ WF_vars(SubmitFailed(p) \/ \E ch \in ChangeDueReplies : SubmitSucceeded(p, ch))
        /\ WF_vars(\E catalog \in Catalogs : ReloadDone(p, catalog))

SpecFair == Spec /\ Fairness

\* sign-in, the store configuration request and logout
NextAuth ==
    \/ \E u \in Users : SignIn(u)
    \/ \E s \in Slots : FetchTokenResolved(s)
    \/ \E s \in Slots : VerifyOk(s)
    \/ \E s \in Slots : FetchFailed(s)
    \/ Logout
    \/ SignOutResolved
    \/ LogoutDone
    \/ SignOutFailed
    \/ PageLoaded

SpecAuth == Init /\ [][NextAuth]_vars

TypeOK ==
    /\ \A i \in 1..Len(cart) : cart[i].id \in ProductIds
    /\ \A p \in Procs : pc[p] \in {"idle", "awaitToken", "awaitFetch", "awaitReload"}

(***************************************************************************)
(* Properties                                                              *)
(***************************************************************************)
\* total as the specification defines it: the taxable amount is clamped at
\* zero; hundredths of a cent
ClampedTotal(c, discount) ==
    Max(0, Subtotal(c) - discount) * 100 + Max(0, Subtotal(c) - discount) * TaxRatePct

\* C1: every line of the cart satisfies 0 < quantity <= maxStock.
C1_QuantityWithinStock ==
    \A i \in 1..Len(cart) : 0 < cart[i].quantity /\ cart[i].quantity <= cart[i].maxStock

\* C2: when a checkout() whose submission failed returns, the cart lines and
\* the discount equal their values when that checkout() was invoked.
C2_FailedCheckoutLeavesCart ==
    [][\A p \in Procs :
          (pc[p] = "awaitFetch" /\ pc'[p] = "idle")
              => (cart' = atInvoke[p].cart /\ discountInput' = atInvoke[p].discount)]_vars

\* C3: at most one checkout request is outstanding at any time.
C3_OneOutstandingCheckout ==
    Cardinality({p \in Procs : pc[p] = "awaitFetch"}) <= 1

\* C4: the step that handles a successful submission leaves the cart without
\* lines and shows the change due carried by the response.
C4_SuccessClearsCart ==
    [][\A p \in Procs :
          (pc[p] = "awaitFetch" /\ pc'[p] = "awaitReload")
              => /\ cart' = <<>>
                 /\ response'[p].success
                 /\ toasts' = IF response'[p].change_due > 0
                              THEN <<ChangeToast(response'[p].change_due)>>
                              ELSE <<>>]_vars

\* C4 witness: cash 25.00 was tendered, the submission answered with a change
\* due of 3.40, the toast shows it and the cart is empty.
C4_Witness ==
    \E p \in Procs :
        /\ pc[p] = "awaitReload"
        /\ response[p] = [success |-> TRUE, change_due |-> 340]
        /\ toasts = <<ChangeToast(340)>>
        /\ payment = "cash" /\ cashReceived = 2500
        /\ cart = <<>>

\* C5: checkout() on a cart without lines shows "Cart is empty", starts no
\* request and changes neither the cart nor the checkout inputs.
C5_EmptyCartCheckout ==
    [][\A p \in Procs :
          (cart = <<>> /\ CheckoutClick(p))
              => /\ toasts' = <<Toast("Cart is empty")>>
                 /\ UNCHANGED <<cart, domVars, procVars>>]_vars

\* C5 witness: the empty-cart warning is on the page, the cart has no lines.
C5_Witness ==
    /\ toasts = <<Toast("Cart is empty")>>
    /\ cart = <<>>
    /\ \A p \in Procs : pc[p] = "idle"

\* C6: checkout() paid in cash with less cash than the total shows
\* "Insufficient cash amount", starts no request and leaves the cart unchanged.
C6_InsufficientFunds ==
    [][\A p \in Procs :
          (/\ CheckoutClick(p)
           /\ cart # <<>>
           /\ payment = "cash"
           /\ cashReceived * 100 < ClampedTotal(cart, discountInput))
              => /\ toasts' = <<Toast("Insufficient cash amount")>>
                 /\ UNCHANGED <<cart, domVars, procVars>>]_vars

\* C6 witness: the insufficient-cash warning is on the page for a cart whose
\* total exceeds the cash received.
C6_Witness ==
    /\ toasts = <<Toast("Insufficient cash amount")>>
    /\ cart # <<>>
    /\ payment = "cash"
    /\ cashReceived * 100 < ClampedTotal(cart, discountInput)

\* C7: a discount above the subtotal gives tax 0 and total 0, both in what
\* calculateTotal() returns and in what updateTotals() shows.
C7_DiscountAboveSubtotal ==
    discountInput > Subtotal(cart)
        => /\ Tax(cart, discountInput) = 0
           /\ CalculateTotal(cart, discountInput) = 0
           /\ display.tax = 0
           /\ display.total = 0

\* C8: the product ids of the cart lines are pairwise distinct, and
\* addToCart of a product that has a line changes nothing but the quantity
\* of that line.
DistinctIds ==
    \A i, j \in 1..Len(cart) : i # j => cart[i].id # cart[j].id

C8_OneLinePerProduct ==
    /\ []DistinctIds
    /\ [][\A product \in Snapshots :
             (Find(cart, product.id) # 0 /\ AddToCart(product))
                 => /\ Len(cart') = Len(cart)
                    /\ \A i \in 1..Len(cart) :
                          /\ cart'[i] = [cart[i] EXCEPT !.quantity = cart'[i].quantity]
                          /\ cart[i].id # product.id => cart'[i] = cart[i]]_vars

\* C8 witness: two lines, one of them incremented by a second add.
C8_Witness ==
    /\ Len(cart) = 2
    /\ \E i \in 1..Len(cart) : cart[i].quantity >= 2

\* C9: addToCart with a product whose stock is <= 0 leaves the cart unchanged.
C9_RejectsOutOfStock ==
    [][\A product \in Snapshots :
          (product.stock <= 0 /\ AddToCart(product)) => cart' = cart]_vars

\* C10: addToCart of a product that has a line with quantity < product.stock
\* adds exactly 1 to the quantity and sets maxStock to product.stock.
C10_IncrementRefreshesMaxStock ==
    [][\A product \in Snapshots :
          LET i == Find(cart, product.id) IN
          (i # 0 /\ cart[i].quantity < product.stock /\ AddToCart(product))
              => /\ cart'[i].quantity = cart[i].quantity + 1
                 /\ cart'[i].maxStock = product.stock]_vars

\* C11: addToCart of a product whose line already holds quantity >=
\* product.stock shows "Not enough stock available" and leaves the cart as
\* it was.
C11_InsufficientStockOnAdd ==
    [][\A product \in Snapshots :
          LET i == Find(cart, product.id) IN
          (i # 0 /\ cart[i].quantity >= product.stock /\ AddToCart(product))
              => /\ cart' = cart
                 /\ toasts' = <<Toast("Not enough stock available")>>]_vars

\* C11 witness: a product with stock 1 was added a second time; the warning
\* is shown and its line still has quantity 1.
C11_Witness ==
    /\ lastCall.op = "addToCart"
    /\ lastCall.arg = 1
    /\ toasts = <<Toast("Not enough stock available")>>
    /\ cart = lastCall.before
    /\ \E i \in 1..Len(cart) : cart[i].id = lastCall.id /\ cart[i].quantity = 1

\* C12: updateCartItemQuantity that brings a line to quantity <= 0 removes
\* the line, exactly as removeFromCart does, and no line with quantity <= 0
\* is ever in the cart.
PositiveQuantities == \A i \in 1..Len(cart) : cart[i].quantity > 0

C12_NonPositiveQuantityRemoves ==
    /\ []PositiveQuantities
    /\ [][\A id \in ProductIds, change \in Deltas :
             LET i == Find(cart, id) IN
             (i # 0 /\ cart[i].quantity + change <= 0 /\ UpdateCartItemQuantity(id, change))
                 => /\ cart' = SelectSeq(cart, LAMBDA line : line.id # id)
                    /\ cart' = RemovedCart(cart, id)]_vars

\* C12 witness: a quantity update by -2 has removed a line of quantity 2 or
\* less and kept the other line.
C12_Witness ==
    LET i == Find(lastCall.before, lastCall.id) IN
    /\ lastCall.op = "updateCartItemQuantity"
    /\ lastCall.arg = -2
    /\ i # 0
    /\ lastCall.before[i].quantity + lastCall.arg <= 0
    /\ Len(cart) = 1
    /\ Find(cart, lastCall.id) = 0

\* C13: for a line that is present and a change with quantity + change > 0,
\* the quantity becomes quantity + change when that is <= maxStock, otherwise
\* the warning is shown and the quantity stays; the other fields of the line
\* and all other lines are unchanged.
C13_QuantityUpdate ==
    [][\A id \in ProductIds, change \in Deltas :
          LET i == Find(cart, id) IN
          (i # 0 /\ cart[i].quantity + change > 0 /\ UpdateCartItemQuantity(id, change))
              => /\ Len(cart') = Len(cart)
                 /\ \A j \in 1..Len(cart) : j # i => cart'[j] = cart[j]
                 /\ IF cart[i].quantity + change <= cart[i].maxStock
                    THEN cart'[i] = [cart[i] EXCEPT !.quantity = cart[i].quantity + change]
                    ELSE /\ cart'[i] = cart[i]
                         /\ toasts' = <<Toast("Not enough stock available")>>]_vars

\* C13 witness: a change of +2 or -2 has been committed on one line of a
\* two-line cart.
C13_Witness ==
    LET i == Find(lastCall.before, lastCall.id) IN
    /\ lastCall.op = "updateCartItemQuantity"
    /\ lastCall.arg \in {-2, 2}
    /\ i # 0
    /\ Len(cart) = 2
    /\ Len(lastCall.before) = 2
    /\ cart[i].quantity = lastCall.before[i].quantity + lastCall.arg

\* C13 witness of the refusal: a change of +2 was refused with the warning.
C13_RefusedWitness ==
    LET i == Find(lastCall.before, lastCall.id) IN
    /\ lastCall.op = "updateCartItemQuantity"
    /\ lastCall.arg = 2
    /\ i # 0
    /\ cart = lastCall.before
    /\ toasts = <<Toast("Not enough stock available")>>

\* C14: updateCartItemQuantity for a product id without a line changes
\* nothing of the cart or the page and shows no warning or error.
C14_AbsentIdNoOp ==
    [][\A id \in ProductIds, change \in Deltas :
          (Find(cart, id) = 0 /\ UpdateCartItemQuantity(id, change))
              => /\ UNCHANGED <<cart, display, checkoutBtnDisabled>>
                 /\ toasts' = <<>>]_vars

\* C14 witness: a quantity update named a product that had no line in a
\* non-empty cart; the cart is as before and no toast is shown.
C14_Witness ==
    /\ lastCall.op = "updateCartItemQuantity"
    /\ Find(lastCall.before, lastCall.id) = 0
    /\ Len(lastCall.before) >= 1
    /\ cart = lastCall.before
    /\ toasts = <<>>

\* C15: removeFromCart(id) leaves exactly the lines of the other products, in
\* their order and unchanged; removing the same id again, or an id without a
\* line, leaves the cart as it is and shows no warning or error.
C15_RemoveIdempotent ==
    [][\A id \in ProductIds :
          RemoveFromCart(id)
              => /\ cart' = SelectSeq(cart, LAMBDA line : line.id # id)
                 /\ RemovedCart(cart', id) = cart'
                 /\ Find(cart, id) = 0 => cart' = cart
                 /\ toasts' = <<>>]_vars

\* C15 witness: removeFromCart named a product without a line in a non-empty
\* cart and the cart is as before.
C15_Witness ==
    /\ lastCall.op = "removeFromCart"
    /\ Find(lastCall.before, lastCall.id) = 0
    /\ Len(lastCall.before) >= 1
    /\ cart = lastCall.before
    /\ toasts = <<>>

\* C16: clearCart, called from the page or by a successful checkout, empties
\* the cart, sets the discount and the cash received to zero and leaves the
\* payment method and the customer as they are.
C16_ClearResetsInputs ==
    [][(ClearCart \/ \E p \in Procs, ch \in ChangeDueReplies : SubmitSucceeded(p, ch))
          => /\ cart' = <<>>
             /\ discountInput' = 0
             /\ cashReceived' = 0
             /\ UNCHANGED <<payment, customerSelect>>]_vars

\* the subtotal summed line by line, cents
LineSum(c) ==
    LET S[n \in 0..Len(c)] ==
            IF n = 0 THEN 0 ELSE S[n - 1] + c[n].price * c[n].quantity
    IN  S[Len(c)]

\* C17: the totals on the page are always those of the whole current cart:
\* subtotal = sum of price x quantity, tax = taxableAmount x taxRate,
\* total = taxableAmount + tax, taxableAmount being subtotal - discount as
\* updateTotals computes it.
C17_Totals ==
    LET taxable == LineSum(cart) - discountInput IN
    /\ display.subtotal = LineSum(cart)
    /\ display.tax * 100 = taxable * TaxRatePct
    /\ display.total = taxable + display.tax

\* C17 witness: one line of price 10.00 and quantity 2, no discount: the page
\* shows 20.00, 1.60 and 21.60.
C17_Witness ==
    /\ Len(cart) = 1
    /\ cart[1].price = 1000
    /\ cart[1].quantity = 2
    /\ discountInput = 0
    /\ display.subtotal = 2000
    /\ display.tax = 160
    /\ display.total = 2160

\* C18: the change due on the page is max(0, cashReceived - total), is never
\* greater than the cash received, and computing it on a cash input changes
\* neither the cart nor any other checkout input.
C18_ChangeDue ==
    /\ [](display.change * 100 = Max(0, cashReceived * 100 - CalculateTotal(cart, discountInput)))
    /\ [](display.change <= cashReceived)
    /\ [][\A v \in CashValues :
             CashInput(v) => UNCHANGED <<cart, discountInput, payment, customerSelect>>]_vars

\* C19: the transaction built by checkout() has card_amount = total and
\* cash_amount = 0 for a card payment, cash_amount = cash received and
\* card_amount = 0 for a cash payment, the total being that of the cart,
\* discount and tax rate at the call; its items are the id, name, price and
\* quantity of the cart lines, in cart order.
C19_TransactionRequest ==
    [][\A p \in Procs :
          (Checkout(p) /\ pc'[p] = "awaitToken")
              => LET t == transactionData'[p]
                     taxable == LineSum(cart) - discountInput
                     total == taxable * 100 + taxable * TaxRatePct
                 IN  /\ payment = "card" => t.card_amount = total /\ t.cash_amount = 0
                     /\ payment = "cash" => t.cash_amount = cashReceived /\ t.card_amount = 0
                     /\ Len(t.items) = Len(cart)
                     /\ \A i \in 1..Len(cart) :
                            t.items[i] = [id |-> cart[i].id, name |-> cart[i].name,
                                          price |-> cart[i].price,
                                          quantity |-> cart[i].quantity]]_vars

\* C19 witness: a card checkout of the cart B, A is in flight with both items
\* in that order, the total 13.50 as card amount and no cash amount.
C19_Witness ==
    /\ pc[1] = "awaitToken"
    /\ transactionData[1].payment_method = "card"
    /\ Len(transactionData[1].items) = 2
    /\ transactionData[1].items[1].id = "B"
    /\ transactionData[1].items[2].id = "A"
    /\ transactionData[1].card_amount = 135000
    /\ transactionData[1].cash_amount = 0

\* C19 witness for cash: a cash checkout is in flight with the cash received
\* as cash amount.
C19_CashWitness ==
    /\ pc[1] = "awaitToken"
    /\ transactionData[1].payment_method = "cash"
    /\ transactionData[1].cash_amount = 2500
    /\ transactionData[1].card_amount = 0

\* C20: every checkout() returns: a validation failure leaves no invocation
\* pending and the button enabled, and an invocation that has submitted
\* eventually finishes, on success and on failure, with the checkout button
\* enabled again.
C20_CheckoutReturns ==
    /\ [][\A p \in Procs :
             (CheckoutClick(p)
                 /\ (CartIsEmpty(cart) \/ InsufficientCash(payment, cashReceived, cart, discountInput)))
                 => pc'[p] = "idle" /\ ~checkoutBtnDisabled']_vars
    /\ \A p \in Procs : (pc[p] # "idle") ~> (pc[p] = "idle" /\ ~checkoutBtnDisabled)

\* C20 witness: a submission has failed; no invocation is pending and the
\* checkout button is enabled.
C20_Witness ==
    /\ toasts = <<Toast("Transaction failed")>>
    /\ \A p \in Procs : pc[p] = "idle"
    /\ ~checkoutBtnDisabled

\* the totals as a function of the prices and quantities, the discount and
\* the tax rate alone
PureTotals(lines, discount, rate) ==
    LET taxable == LineSum(lines) - discount IN
    [subtotal |-> ToFixed2(LineSum(lines) * 100),
     tax      |-> ToFixed2(taxable * rate),
     total    |-> ToFixed2(taxable * 100 + taxable * rate)]

PricedLines(c) == [i \in 1..Len(c) |-> [price |-> c[i].price, quantity |-> c[i].quantity]]

\* C21: the totals are a function of the lines' prices and quantities, the
\* discount and the tax rate only, whatever operations produced the lines;
\* evaluating them again on the same inputs shows the same totals and
\* changes neither the cart nor any other input.
C21_TotalsPure ==
    /\ []([subtotal |-> display.subtotal, tax |-> display.tax, total |-> display.total]
             = PureTotals(PricedLines(cart), discountInput, TaxRatePct))
    /\ [][\A d \in DiscountValues :
             DiscountInput(d)
                 => /\ UNCHANGED <<cart, products, cashReceived, payment, customerSelect>>
                    /\ d = discountInput => display' = display]_vars

\* C21 witness: a line whose stock snapshot differs from the catalog, left
\* alone in the cart after another line was removed, shows the totals of its
\* price and quantity.
C21_Witness ==
    /\ lastCall.op = "removeFromCart"
    /\ Len(lastCall.before) = 2
    /\ Len(cart) = 1
    /\ cart[1].maxStock # products[cart[1].id].stock
    /\ discountInput = 0
    /\ display.subtotal = cart[1].price * cart[1].quantity
    /\ display.total * 100 = cart[1].price * cart[1].quantity * (100 + TaxRatePct)

\* C22: while a checkout has handed its request to apiRequest and the result
\* is not yet handled, no step changes the lines of the cart, except the
\* handling of the successful result itself.
C22_NoEditsDuringSubmission ==
    [][(\E p \in Procs : InFlight(p))
          => \/ cart' = cart
             \/ \E p \in Procs, ch \in ChangeDueReplies : SubmitSucceeded(p, ch)]_vars

\* C23: a checkout that passes validation hands one request to fetch and
\* never a second one: a failure ends the invocation with the error toast; a
\* checkout that fails validation hands over none.
C23_OneRequestNoRetry ==
    /\ [](\A p \in Procs : /\ Len(sent[p]) <= 1
                           /\ Len(sent[p]) = 1 <=> pc[p] = "awaitFetch")
    /\ [][\A p \in Procs :
             SubmitFailed(p) => /\ pc'[p] = "idle"
                                /\ sent'[p] = <<>>
                                /\ toasts' = <<Toast("Transaction failed")>>]_vars
    /\ [][\A p \in Procs :
             (CheckoutClick(p)
                 /\ (CartIsEmpty(cart) \/ InsufficientCash(payment, cashReceived, cart, discountInput)))
                 => UNCHANGED <<sent, pc>>]_vars

\* C23 witness: the first invocation has failed at the submission; it is
\* idle with nothing sent again, the error is shown and the cart is kept.
C23_Witness ==
    /\ toasts = <<Toast("Transaction failed")>>
    /\ pc[1] = "idle"
    /\ sent[1] = <<>>
    /\ cart # <<>>

\* C24: the request handed to fetch is the request as checkout() built it
\* from the cart, amounts and discount at the call, whatever cart operations
\* ran while the token was awaited, and it does not change while the
\* invocation is in flight.
C24_RequestImmutable ==
    /\ [][\A p \in Procs :
             (InFlight(p) /\ pc'[p] \in {"awaitToken", "awaitFetch"})
                 => transactionData'[p] = transactionData[p]]_vars
    /\ [][\A p \in Procs :
             TokenResolved(p)
                 => LET body == sent'[p][1] IN
                    /\ body.items = TransactionItems(atInvoke[p].cart)
                    /\ body.discount = atInvoke[p].discount
                    /\ body.card_amount
                         = CardAmount(body.payment_method, atInvoke[p].cart, atInvoke[p].discount)
                    /\ body = transactionData[p]]_vars
    /\ [](\A p \in Procs : pc[p] = "awaitFetch" => sent[p] = <<transactionData[p]>>)

\* C24 witness: the cart was edited after the request was built, and the
\* request that was sent has the lines of the cart at the call.
C24_Witness ==
    \E p \in Procs :
        /\ pc[p] = "awaitFetch"
        /\ cart # atInvoke[p].cart
        /\ sent[p][1].items = TransactionItems(atInvoke[p].cart)
        /\ sent[p][1].items # TransactionItems(cart)

\* C25: addToCart, updateCartItemQuantity, removeFromCart, clearCart and
\* checkout leave every product record of the catalog as it is, and a line
\* created by addToCart is a record of its own with copies of the product's
\* id, name and price and the stock as maxStock.
C25_CatalogNotMutated ==
    /\ [][(\/ \E id \in ProductIds : AddToCart(products[id])
           \/ \E id \in ProductIds, change \in Deltas : UpdateCartItemQuantity(id, change)
           \/ \E id \in ProductIds : RemoveFromCart(id)
           \/ ClearCart
           \/ \E p \in Procs : Checkout(p) \/ TokenResolved(p) \/ SubmitFailed(p)
           \/ \E p \in Procs, ch \in ChangeDueReplies : SubmitSucceeded(p, ch))
              => products' = products]_vars
    /\ [][\A id \in ProductIds :
             (Find(cart, id) = 0 /\ AddToCart(products[id]))
                 => cart'[Len(cart')] = [id |-> products[id].id, name |-> products[id].name,
                                         price |-> products[id].price, quantity |-> 1,
                                         maxStock |-> products[id].stock]]_vars

\* C25 witness: a product was added twice; its line has quantity 2 and the
\* product record still has its stock.
C25_Witness ==
    /\ lastCall.op = "addToCart"
    /\ Len(cart) = 1
    /\ cart[1].quantity = 2
    /\ products[cart[1].id] = Product(cart[1].id, MaxStock)

\* C26: the lines a successful checkout clears are the lines of the request
\* it submitted, same products and quantities.
C26_ClearsWhatWasSold ==
    [][\A p \in Procs, ch \in ChangeDueReplies :
          SubmitSucceeded(p, ch) => TransactionItems(cart) = transactionData[p].items]_vars

\* C27: from showLoading to hideLoading of a checkout the checkout button is
\* disabled.
C27_ButtonDisabledInFlight ==
    (\E p \in Procs : pc[p] # "idle") => checkoutBtnDisabled

\* C28: when no checkout is in flight the checkout button is enabled exactly
\* when the cart has a line.
C28_ButtonFollowsCart ==
    (\A p \in Procs : pc[p] = "idle") => (checkoutBtnDisabled <=> cart = <<>>)

\* C29: in every state the subtotal, tax, total and change due on the page
\* are those of the current cart, discount, tax rate and cash received, shown
\* with two decimals, and the total shown is calculateTotal() as checkout
\* validates against it.
C29_DisplayCurrent ==
    LET taxable == LineSum(cart) - discountInput
        total == taxable * (100 + TaxRatePct)
    IN  /\ display.subtotal = LineSum(cart)
        /\ display.tax = ToFixed2(taxable * TaxRatePct)
        /\ display.total = ToFixed2(total)
        /\ display.change = ToFixed2(IF cashReceived * 100 > total
                                     THEN cashReceived * 100 - total ELSE 0)
        /\ display.total = ToFixed2(CalculateTotal(cart, discountInput))

\* C29 witness: a successful checkout has cleared a cart with lines and
\* cash received; the page shows the totals of the empty cart and the whole
\* cash as change.
C29_Witness ==
    /\ lastCall.op = "clearCart"
    /\ lastCall.before # <<>>
    /\ \E p \in Procs : pc[p] = "awaitReload"
    /\ cart = <<>>
    /\ discountInput = 0
    /\ cashReceived = 2500
    /\ display = [subtotal |-> 0, tax |-> 0, total |-> 0, change |-> 2500]

\* C30: once logout() has completed, and until somebody signs in again,
\* getCurrentUser() returns null, also while a fetchStoreConfig() started by
\* the earlier sign-in is still awaiting its token or its response.
C30_NoUserAfterLogout ==
    loggedOut => GetCurrentUser = NoUser

====
